---- MODULE Spec2Model ----
(***************************************************************************)
(* The GitHub client pool of core/session.go: Session.Start and its        *)
(* InitGitHubClients (validation of the configured access tokens and       *)
(* seeding of the Clients channel), and the pool operations GetClient and  *)
(* FreeClient used by the worker goroutines.                                *)
(*                                                                         *)
(* Three specifications share the variables:                                *)
(*   Spec        NewSession -> Session.Start, one action per Init* method;  *)
(*   PoolSpec    the pool operations, started in the states a completed     *)
(*               Session.Start leaves behind, every borrower calling        *)
(*               FreeClient once per client it acquired;                    *)
(*   MisuseSpec  the pool operations with one borrower that never calls     *)
(*               FreeClient, or calls it twice.                             *)
(* Time is counted in whole seconds.  A token is abstracted to its length  *)
(* and the outcome of its validation call.                                  *)
(***************************************************************************)
EXTENDS Integers, Sequences, FiniteSets, TLC

VARIABLES
    tokens,            \* s.Config.GitHubAccessTokens
    Threads,           \* *s.Options.Threads
    Local,             \* len(*s.Options.Local) > 0
    stage,             \* position inside Session.Start, or how it ended
    chanSize,          \* capacity of s.Clients and of s.ExhaustedClients
    handles,           \* the GitHubClientWrapper objects, by handle id
    Clients,           \* s.Clients: handle ids, oldest first
    ExhaustedClients,  \* s.ExhaustedClients: handle ids, oldest first
    Log,               \* lines written by s.Log.Warn in InitGitHubClients
    now,               \* time.Now()
    pc,                \* per worker: position in GetClient / its borrow cycle
    held,              \* per worker: the handle it dequeued (0: none)
    wakeAt,            \* per worker: when its time.Sleep ends
    sendq              \* per channel: the FreeClient calls blocked in their
                       \* send, longest waiting first

vars == <<tokens, Threads, Local, stage, chanSize, handles, Clients,
          ExhaustedClients, Log, now, pc, held, wakeAt, sendq>>

(***************************** bounds ************************************)
MaxTokens == 3
MaxThreads == 2
MaxCPU == 3
MaxTime == 1
MaxPoolTokens == 1
MaxHandles == 2
NumWorkers == 3

(************************ program constants ******************************)
\* token[:10]
PrefixLen == 10
\* time.Now().Add(-1 * time.Second)
InitLead == 1
\* time.Sleep(time.Millisecond * 1000)
Backoff == 1

(***************************** inputs ************************************)
\* Lengths of the configured token strings: one shorter than the logged
\* prefix, one of the length of a GitHub personal access token.
ShortLens == {3}

IssuedLens == {40}

TokenLens == ShortLens \cup IssuedLens

\* Outcome of client.Users.Get for a token: no error, an error of type
\* *github.ErrorResponse, or any other error.
Results == {"ok", "rejected", "error"}

\* The service accepts no string shorter than the tokens it issues; such a
\* string is rejected, or its validation call fails on the way.
TokenValues ==
    [len : IssuedLens, res : Results] \cup [len : ShortLens, res : Results \ {"ok"}]

TokenLists(n) == UNION {[1..k -> TokenValues] : k \in 0..n}

Workers == 1..NumWorkers

Max(a, b) == IF a >= b THEN a ELSE b

RECURSIVE SumTo(_, _)
SumTo(f, n) == IF n = 0 THEN 0 ELSE f[n] + SumTo(f, n - 1)

\* The durations of n validation calls that end no later than MaxTime when
\* the first starts at time t.
Waits(n, t) == {f \in [1..n -> 0..(MaxTime - t)] : SumTo(f, n) <= MaxTime - t}

(********************** Session.InitGitHubClients *************************)
\* chanSize := *s.Options.Threads * (len(s.Config.GitHubAccessTokens) + 1)
ChanSize(threads, toks) == threads * (Len(toks) + 1)

\* &GitHubClientWrapper{client, token, time.Now().Add(-1 * time.Second)}
NewWrapper(tok, t) == [Token |-> tok, RateLimitedUntil |-> t - InitLead]

\* Variant: every failed validation call counts as a rejection.
IsAnyError(token) == token.res # "ok"

\* if _, ok := err.(*github.ErrorResponse); ok  (inside err != nil)
IsErrorResponse(token) == token.res = "rejected"

\* token[:10] : the number of characters shown, or a run-time panic (-1)
\* when the string is shorter than the slice bound.
TokenPrefix(len) == IF len < PrefixLen THEN -1 ELSE PrefixLen

\* Variant: the loop condition i < *s.Options.Threads.
LastReplicaExclusive(threads) == threads - 1

\* Last value of i for which the seeding loop runs:
\* for i := 0; i <= *s.Options.Threads; i++
LastReplica(threads) == threads

\* The seeding loop for one token, from iteration i on.  A send on a full
\* channel blocks; nothing receives during Start, so it blocks for good.
RECURSIVE SeedReplicas(_, _, _, _, _)
SeedReplicas(st, tok, i, threads, t) ==
    IF i > LastReplica(threads) THEN st
    ELSE IF Len(st.Clients) >= st.chanSize
         THEN [st EXCEPT !.status = "blocked"]
         ELSE SeedReplicas(
                [st EXCEPT !.handles = Append(@, NewWrapper(tok, t)),
                           !.Clients = Append(@, Len(st.handles) + 1)],
                tok, i + 1, threads, t)

\* The loop over the configured tokens, from the k-th on.  The validation
\* call client.Users.Get of token k returns after waits[k] seconds; st.now
\* is the time.Now() the statements after it read.
RECURSIVE ValidateTokens(_, _, _, _, _)
ValidateTokens(st, toks, k, threads, waits) ==
    IF st.status # "running" \/ k > Len(toks) THEN st
    ELSE LET called == [st EXCEPT !.now = @ + waits[k]] IN
         IF IsErrorResponse(toks[k])
         THEN IF TokenPrefix(toks[k].len) < 0
              THEN [called EXCEPT !.status = "panic"]
              ELSE ValidateTokens(
                     [called EXCEPT !.Log = Append(@, [level |-> "warn", token |-> k,
                                                      shown |-> TokenPrefix(toks[k].len)])],
                     toks, k + 1, threads, waits)
         ELSE ValidateTokens(SeedReplicas(called, k, 0, threads, called.now),
                             toks, k + 1, threads, waits)

\* if len(s.Clients) < 1 { s.Log.Fatal(...) }
\* Log.Fatal writes its message and ends the process.
CheckClients(st) ==
    IF st.status # "running" THEN st
    ELSE IF Len(st.Clients) < 1 THEN [st EXCEPT !.status = "fatal"]
         ELSE [st EXCEPT !.status = "done"]

\* s.Clients = make(chan *GitHubClientWrapper, chanSize): make panics for a
\* negative size.
MakeChan(st) ==
    IF st.chanSize < 0 THEN [st EXCEPT !.status = "panic"] ELSE st

\* The body of InitGitHubClients when local mode is off, entered at time t.
BuildPool(toks, threads, t, waits) ==
    CheckClients(
      ValidateTokens(MakeChan([status |-> "running", now |-> t,
                               chanSize |-> ChanSize(threads, toks),
                               handles |-> <<>>, Clients |-> <<>>, Log |-> <<>>]),
                     toks, 1, threads, waits))

(************************** state predicates *****************************)
Ended == stage \in {"fatal", "panic", "blocked"}

Panicked == \E w \in Workers : pc[w] = "panic"

NoWorkers ==
    /\ pc = [w \in Workers |-> "idle"]
    /\ held = [w \in Workers |-> 0]
    /\ wakeAt = [w \in Workers |-> 0]
    /\ sendq = [Clients |-> <<>>, ExhaustedClients |-> <<>>]

(******************************* Start ***********************************)
Init ==
    /\ tokens \in TokenLists(MaxTokens)
    /\ Threads \in 0..MaxThreads
    /\ Local \in BOOLEAN
    /\ stage = "logger"
    /\ chanSize = 0
    /\ handles = <<>>
    /\ Clients = <<>>
    /\ ExhaustedClients = <<>>
    /\ Log = <<>>
    /\ now = 0
    /\ NoWorkers

InitLogger ==
    /\ stage = "logger"
    /\ stage' = "threads"
    /\ UNCHANGED <<tokens, Threads, Local, chanSize, handles, Clients,
                   ExhaustedClients, Log, now, pc, held, wakeAt, sendq>>

\* Variant: a configured count of 0 is left as it is.
InitThreadsKeepZero ==
    /\ stage = "threads"
    /\ stage' = "signatures"
    /\ UNCHANGED <<tokens, Threads, Local, chanSize, handles, Clients,
                   ExhaustedClients, Log, now, pc, held, wakeAt, sendq>>

InitThreads ==
    /\ stage = "threads"
    /\ IF Threads = 0
       THEN \E numCPUs \in 1..MaxCPU : Threads' = numCPUs
       ELSE Threads' = Threads
    /\ stage' = "signatures"
    /\ UNCHANGED <<tokens, Local, chanSize, handles, Clients,
                   ExhaustedClients, Log, now, pc, held, wakeAt, sendq>>

InitSignatures ==
    /\ stage = "signatures"
    /\ stage' = "clients"
    /\ UNCHANGED <<tokens, Threads, Local, chanSize, handles, Clients,
                   ExhaustedClients, Log, now, pc, held, wakeAt, sendq>>

\* Variant: the pool is built in local mode too.
InitGitHubClientsAlways ==
    /\ stage = "clients"
    /\ \E waits \in Waits(Len(tokens), now) :
         LET r == BuildPool(tokens, Threads, now, waits) IN
         /\ stage' = (IF r.status = "done" THEN "csv" ELSE r.status)
         /\ chanSize' = r.chanSize
         /\ handles' = r.handles
         /\ Clients' = r.Clients
         /\ Log' = r.Log
         /\ now' = r.now
    /\ UNCHANGED <<tokens, Threads, Local, ExhaustedClients,
                   pc, held, wakeAt, sendq>>

InitGitHubClients ==
    /\ stage = "clients"
    /\ IF Local
       THEN /\ stage' = "csv"
            /\ UNCHANGED <<chanSize, handles, Clients, Log, now>>
       ELSE \E waits \in Waits(Len(tokens), now) :
              LET r == BuildPool(tokens, Threads, now, waits) IN
              /\ stage' = (IF r.status = "done" THEN "csv" ELSE r.status)
              /\ chanSize' = r.chanSize
              /\ handles' = r.handles
              /\ Clients' = r.Clients
              /\ Log' = r.Log
              /\ now' = r.now
    /\ UNCHANGED <<tokens, Threads, Local, ExhaustedClients,
                   pc, held, wakeAt, sendq>>

InitCsvWriter ==
    /\ stage = "csv"
    /\ stage' = "done"
    /\ UNCHANGED <<tokens, Threads, Local, chanSize, handles, Clients,
                   ExhaustedClients, Log, now, pc, held, wakeAt, sendq>>

Tick ==
    /\ ~Ended
    /\ ~Panicked
    /\ now < MaxTime
    /\ now' = now + 1
    /\ UNCHANGED <<tokens, Threads, Local, stage, chanSize, handles, Clients,
                   ExhaustedClients, Log, pc, held, wakeAt, sendq>>

Next ==
    \/ InitLogger
    \/ InitThreads
    \/ InitSignatures
    \/ InitGitHubClients
    \/ InitCsvWriter
    \/ Tick

Spec == Init /\ [][Next]_vars

(***************************** FreeClient ********************************)
\* Variant: !client.RateLimitedUntil.Before(time.Now())
NotBefore(until, t) == until >= t

\* Variant: client.RateLimitedUntil.Before(time.Now())
LimitPassed(until, t) == until < t

\* client.RateLimitedUntil.After(time.Now())
StillLimited(until, t) == until > t

\* The channel FreeClient sends the client to.
FreeTarget(c, t) ==
    IF StillLimited(handles[c].RateLimitedUntil, t)
    THEN "ExhaustedClients"
    ELSE "Clients"

\* The send blocks while the channel holds chanSize elements.
CanFree(c, t) ==
    IF FreeTarget(c, t) = "ExhaustedClients"
    THEN Len(ExhaustedClients) < chanSize
    ELSE Len(Clients) < chanSize

\* Variant: the client is sent to both channels.
FreeClientBoth(c, t) ==
    /\ Len(ExhaustedClients) < chanSize
    /\ Len(Clients) < chanSize
    /\ ExhaustedClients' = Append(ExhaustedClients, c)
    /\ Clients' = Append(Clients, c)

FreeClient(c, t) ==
    /\ CanFree(c, t)
    /\ IF FreeTarget(c, t) = "ExhaustedClients"
       THEN /\ ExhaustedClients' = Append(ExhaustedClients, c)
            /\ UNCHANGED Clients
       ELSE /\ Clients' = Append(Clients, c)
            /\ UNCHANGED ExhaustedClients

\* The channel on which worker w's call of FreeClient is blocked in its
\* send, "none" when w is in no blocked send.
Parked(w) ==
    IF \E i \in 1..Len(sendq.Clients) : sendq.Clients[i].worker = w
    THEN "Clients"
    ELSE IF \E i \in 1..Len(sendq.ExhaustedClients) :
              sendq.ExhaustedClients[i].worker = w
         THEN "ExhaustedClients"
         ELSE "none"

\* Worker w's call s.FreeClient(held[w]) returns at once: the channel it
\* has chosen has a free slot.
FreeReturns(w) ==
    /\ Parked(w) = "none"
    /\ FreeClient(held[w], now)
    /\ UNCHANGED sendq

\* Worker w's call s.FreeClient(held[w]) finds the channel it has chosen
\* full: the send waits on that channel, behind the sends already waiting,
\* until a receive makes room for it.  then is where w goes on when the
\* call has returned.
FreeWaits(w, then) ==
    /\ Parked(w) = "none"
    /\ ~CanFree(held[w], now)
    /\ sendq' = [sendq EXCEPT ![FreeTarget(held[w], now)] =
                   Append(@, [worker |-> w, then |-> then])]
    /\ UNCHANGED <<Clients, ExhaustedClients>>

\* A receive from a channel with buffer q: the head is taken, and when a
\* send is waiting, the value of the longest waiting one enters the buffer
\* in the same step.
RecvBuffer(q, sq) ==
    IF sq = <<>> THEN Tail(q) ELSE Append(Tail(q), held[Head(sq).worker])

\* pc, held and wakeAt after worker r has received client from a channel
\* with waiting sends sq and goes on at rpc; the sender whose send the
\* receive completed returns from FreeClient and goes on where it said.
RecvPc(r, rpc, sq) ==
    [v \in Workers |->
       IF v = r THEN rpc
       ELSE IF sq # <<>> /\ v = Head(sq).worker THEN Head(sq).then
       ELSE pc[v]]

RecvHeld(r, client, sq) ==
    [v \in Workers |->
       IF v = r THEN client
       ELSE IF sq # <<>> /\ v = Head(sq).worker /\ Head(sq).then # "freed" THEN 0
       ELSE held[v]]

RecvWakeAt(r, wake, sq) ==
    [v \in Workers |->
       IF v = r THEN wake
       ELSE IF sq # <<>> /\ v = Head(sq).worker THEN 0
       ELSE wakeAt[v]]

(****************************** GetClient ********************************)
PoolUp == stage = "done" /\ ~Local /\ ~Panicked

\* Variant: the sleep is skipped.
NoSleep(until, t) == 0

\* time.Until(client.RateLimitedUntil)
SleepTime(until, t) == until - t

\* time.Sleep(d) returns at once for d <= 0
SleepEnd(d, t) == t + Max(0, d)

\* Variant: GetClient is entered under a lock that a sleeper keeps.
AtSelectLocked(w) ==
    /\ pc[w] \in {"idle", "select"}
    /\ \A v \in Workers : pc[v] # "sleeping"

\* A worker at the select statement: it has just called GetClient, or it is
\* in a later turn of the for loop.
AtSelect(w) == pc[w] \in {"idle", "select"}

\* case client := <-s.Clients: the Debug line slices client.Token[:10],
\* then the client is returned.  select takes any case that can proceed.
SelectClients(w) ==
    /\ PoolUp
    /\ AtSelect(w)
    /\ Clients # <<>>
    /\ LET client == Head(Clients)
           sq == sendq.Clients IN
       /\ Clients' = RecvBuffer(Clients, sq)
       /\ sendq' = [sendq EXCEPT !.Clients = IF sq = <<>> THEN sq ELSE Tail(sq)]
       /\ held' = RecvHeld(w, client, sq)
       /\ pc' = RecvPc(w, IF TokenPrefix(tokens[handles[client].Token].len) < 0
                          THEN "panic" ELSE "using", sq)
       /\ wakeAt' = RecvWakeAt(w, wakeAt[w], sq)
    /\ UNCHANGED <<tokens, Threads, Local, stage, chanSize, handles,
                   ExhaustedClients, Log, now>>

\* case client := <-s.ExhaustedClients: up to the call of time.Sleep.
SelectExhausted(w) ==
    /\ PoolUp
    /\ AtSelect(w)
    /\ ExhaustedClients # <<>>
    /\ LET client == Head(ExhaustedClients)
           sq == sendq.ExhaustedClients IN
       /\ ExhaustedClients' = RecvBuffer(ExhaustedClients, sq)
       /\ sendq' = [sendq EXCEPT !.ExhaustedClients =
                      IF sq = <<>> THEN sq ELSE Tail(sq)]
       /\ held' = RecvHeld(w, client, sq)
       /\ wakeAt' = RecvWakeAt(
                      w, SleepEnd(SleepTime(handles[client].RateLimitedUntil, now), now),
                      sq)
       /\ pc' = RecvPc(w, "sleeping", sq)
    /\ UNCHANGED <<tokens, Threads, Local, stage, chanSize, handles, Clients,
                   Log, now>>

\* Variant: after the sleep GetClient clears the client's RateLimitedUntil
\* before it frees the client.
AfterSleepReset(w) ==
    /\ PoolUp
    /\ pc[w] = "sleeping"
    /\ now >= wakeAt[w]
    /\ handles' = [handles EXCEPT ![held[w]].RateLimitedUntil = now - InitLead]
    /\ Clients' = Append(Clients, held[w])
    /\ held' = [held EXCEPT ![w] = 0]
    /\ pc' = [pc EXCEPT ![w] = "select"]
    /\ wakeAt' = [wakeAt EXCEPT ![w] = 0]
    /\ UNCHANGED <<tokens, Threads, Local, stage, chanSize, ExhaustedClients,
                   Log, now, sendq>>

\* time.Sleep has returned: the Debug line slices client.Token[:10], then
\* s.FreeClient(client), then the next turn of the for loop.
AfterSleep(w) ==
    /\ PoolUp
    /\ pc[w] = "sleeping"
    /\ now >= wakeAt[w]
    /\ Parked(w) = "none"
    /\ IF TokenPrefix(tokens[handles[held[w]].Token].len) < 0
       THEN /\ pc' = [pc EXCEPT ![w] = "panic"]
            /\ wakeAt' = [wakeAt EXCEPT ![w] = 0]
            /\ UNCHANGED <<Clients, ExhaustedClients, held, sendq>>
       ELSE \/ /\ FreeReturns(w)
               /\ held' = [held EXCEPT ![w] = 0]
               /\ pc' = [pc EXCEPT ![w] = "select"]
               /\ wakeAt' = [wakeAt EXCEPT ![w] = 0]
            \/ /\ FreeWaits(w, "select")
               /\ UNCHANGED <<held, pc, wakeAt>>
    /\ UNCHANGED <<tokens, Threads, Local, stage, chanSize, handles,
                   Log, now>>

\* default: neither channel has an element; sleep one second.
SelectDefault(w) ==
    /\ PoolUp
    /\ AtSelect(w)
    /\ Clients = <<>>
    /\ ExhaustedClients = <<>>
    /\ wakeAt' = [wakeAt EXCEPT ![w] = SleepEnd(Backoff, now)]
    /\ pc' = [pc EXCEPT ![w] = "backoff"]
    /\ UNCHANGED <<tokens, Threads, Local, stage, chanSize, handles, Clients,
                   ExhaustedClients, Log, now, held, sendq>>

AfterBackoff(w) ==
    /\ PoolUp
    /\ pc[w] = "backoff"
    /\ now >= wakeAt[w]
    /\ pc' = [pc EXCEPT ![w] = "select"]
    /\ wakeAt' = [wakeAt EXCEPT ![w] = 0]
    /\ UNCHANGED <<tokens, Threads, Local, stage, chanSize, handles, Clients,
                   ExhaustedClients, Log, now, held, sendq>>

(****************************** borrowers ********************************)
\* The borrower saw a rate-limit response: it sets RateLimitedUntil of the
\* client it holds to the reset time the service reported.
RateLimit(w) ==
    /\ PoolUp
    /\ pc[w] = "using"
    /\ Parked(w) = "none"
    /\ handles[held[w]].RateLimitedUntil <= now
    /\ \E until \in (now + 1)..MaxTime :
         handles' = [handles EXCEPT ![held[w]].RateLimitedUntil = until]
    /\ UNCHANGED <<tokens, Threads, Local, stage, chanSize, Clients,
                   ExhaustedClients, Log, now, pc, held, wakeAt, sendq>>

\* The borrower hands its client back: s.FreeClient(client).
Release(w) ==
    /\ PoolUp
    /\ pc[w] = "using"
    /\ \/ /\ FreeReturns(w)
          /\ held' = [held EXCEPT ![w] = 0]
          /\ pc' = [pc EXCEPT ![w] = "done"]
       \/ /\ FreeWaits(w, "done")
          /\ UNCHANGED <<held, pc>>
    /\ UNCHANGED <<tokens, Threads, Local, stage, chanSize, handles,
                   Log, now, wakeAt>>

(**************************** the pool in use ****************************)
\* The states NewSession returns in, for the configurations of at most n
\* tokens that leave a pool behind.
PoolStart(n) ==
    /\ tokens \in TokenLists(n)
    /\ Threads \in 1..MaxThreads
    /\ Local = FALSE
    /\ stage = "done"
    /\ \E waits \in Waits(Len(tokens), 0) :
         LET r == BuildPool(tokens, Threads, 0, waits) IN
         /\ r.status = "done"
         /\ Len(r.handles) <= MaxHandles
         /\ chanSize = r.chanSize
         /\ handles = r.handles
         /\ Clients = r.Clients
         /\ Log = r.Log
         /\ now = r.now
    /\ ExhaustedClients = <<>>
    /\ NoWorkers

PoolInit == PoolStart(MaxPoolTokens)

PoolNext ==
    \/ \E w \in Workers : SelectClients(w)
    \/ \E w \in Workers : SelectExhausted(w)
    \/ \E w \in Workers : AfterSleep(w)
    \/ \E w \in Workers : SelectDefault(w)
    \/ \E w \in Workers : AfterBackoff(w)
    \/ \E w \in Workers : RateLimit(w)
    \/ \E w \in Workers : Release(w)
    \/ Tick

PoolSpec == PoolInit /\ [][PoolNext]_vars

(************************* borrowers breaking the rule ********************)
\* One breach of the rule per run is followed, and the workers being
\* interchangeable, it is the first worker that commits it.
RuleKept(w) ==
    /\ w = 1
    /\ \A v \in Workers : pc[v] \notin {"kept", "freed", "twice"}

\* A borrower drops the client it acquired without calling FreeClient.
Keep(w) ==
    /\ PoolUp
    /\ RuleKept(w)
    /\ pc[w] = "using"
    /\ Parked(w) = "none"
    /\ pc' = [pc EXCEPT ![w] = "kept"]
    /\ UNCHANGED <<tokens, Threads, Local, stage, chanSize, handles, Clients,
                   ExhaustedClients, Log, now, held, wakeAt, sendq>>

\* A borrower calls s.FreeClient(client) and keeps the pointer.
ReleaseFirst(w) ==
    /\ PoolUp
    /\ RuleKept(w)
    /\ pc[w] = "using"
    /\ \/ /\ FreeReturns(w)
          /\ pc' = [pc EXCEPT ![w] = "freed"]
       \/ /\ FreeWaits(w, "freed")
          /\ UNCHANGED pc
    /\ UNCHANGED <<tokens, Threads, Local, stage, chanSize, handles,
                   Log, now, held, wakeAt>>

\* The same borrower calls s.FreeClient(client) a second time.
ReleaseAgain(w) ==
    /\ PoolUp
    /\ pc[w] = "freed"
    /\ \/ /\ FreeReturns(w)
          /\ held' = [held EXCEPT ![w] = 0]
          /\ pc' = [pc EXCEPT ![w] = "twice"]
       \/ /\ FreeWaits(w, "twice")
          /\ UNCHANGED <<held, pc>>
    /\ UNCHANGED <<tokens, Threads, Local, stage, chanSize, handles,
                   Log, now, wakeAt>>

\* The breach is followed in the smallest pools, built at time 0: one worker
\* thread and the tokens the service answers for, accepted or rejected.  With
\* one more configured token than in PoolInit, a rejected token leaves the
\* channels a free slot beyond the handles of the pool.
MisuseInit ==
    /\ PoolStart(MaxPoolTokens + 1)
    /\ Threads = 1
    /\ now = 0
    /\ \A k \in 1..Len(tokens) : tokens[k].res # "error"

MisuseNext ==
    \/ \E w \in Workers : SelectClients(w)
    \/ \E w \in Workers : SelectExhausted(w)
    \/ \E w \in Workers : AfterSleep(w)
    \/ \E w \in Workers : SelectDefault(w)
    \/ \E w \in Workers : AfterBackoff(w)
    \/ \E w \in Workers : RateLimit(w)
    \/ \E w \in Workers : Release(w)
    \/ Tick
    \/ \E w \in Workers : Keep(w)
    \/ \E w \in Workers : ReleaseFirst(w)
    \/ \E w \in Workers : ReleaseAgain(w)

MisuseSpec == MisuseInit /\ [][MisuseNext]_vars

(************************ vocabulary of the claims ************************)
Range(q) == {q[i] : i \in 1..Len(q)}

\* How often handle c occurs in channel q.
Occ(q, c) == Cardinality({i \in 1..Len(q) : q[i] = c})

TokenIds == 1..Len(tokens)

HandleIds == 1..Len(handles)

\* The credentials that pass the validation of InitGitHubClients: the ones
\* the service does not reject.
Valid == {k \in TokenIds : tokens[k].res # "rejected"}

Rejected == {k \in TokenIds : tokens[k].res = "rejected"}

\* The credentials whose validation call failed without a rejection.
Errored == {k \in TokenIds : tokens[k].res = "error"}

\* The handles created for credential k.
HandlesOf(k) == {c \in HandleIds : handles[c].Token = k}

Warned(k) == \E i \in 1..Len(Log) : Log[i].level = "warn" /\ Log[i].token = k

\* InitGitHubClients has run with local mode off, however it ended.
ClientsRan == ~Local /\ stage \in {"csv", "done", "fatal", "panic", "blocked"}

\* InitGitHubClients has returned with local mode off.
PoolBuilt == ~Local /\ stage \in {"csv", "done"}

\* Handles a caller has dequeued and not yet sent back, the wait of
\* GetClient's exhausted path included.
OnLoan == {held[w] : w \in Workers} \ {0}

Holders(c) == {w \in Workers : held[w] = c}

\* Worker w's step is a call of FreeClient: the borrower's, or the one
\* GetClient makes after its sleep.
Frees(w) ==
    \/ pc[w] = "using" /\ pc'[w] = "done"
    \/ pc[w] = "sleeping" /\ pc'[w] = "select"

(* C1: with one Release per Acquire, every handle is in exactly one place   *)
(* (the ready queue, the exhausted queue, or dequeued by exactly one        *)
(* caller), and |ready| + |exhausted| + |on loan| = N x (R+1).              *)
Conservation ==
    /\ \A c \in HandleIds :
         Occ(Clients, c) + Occ(ExhaustedClients, c) + Cardinality(Holders(c)) = 1
    /\ Len(Clients) + Len(ExhaustedClients) + Cardinality(OnLoan)
         = Cardinality(Valid) * (Threads + 1)

\* A handle on loan, another in the exhausted queue, a third caller polling.
ConservationWitness ==
    /\ ExhaustedClients # <<>>
    /\ \E w \in Workers : pc[w] = "using"
    /\ \E w \in Workers : pc[w] = "backoff"

(* C2: GetClient never fails and always eventually returns a handle.  The   *)
(* part a finite run refutes: no call of GetClient ends in a run-time       *)
(* panic.                                                                   *)
GetClientNeverFails == \A w \in Workers : pc[w] # "panic"

(* C3: a poll cycle of GetClient that finds the ready queue non-empty takes *)
(* from it; a handle is taken from the exhausted queue only in a cycle      *)
(* where the ready queue is empty.                                          *)
ReadyFirst ==
    [][\A w \in Workers :
         (AtSelect(w) /\ pc'[w] = "sleeping") => Clients = <<>>]_vars

(* C4: no send of InitGitHubClients blocks on a full channel, whatever the  *)
(* number of tokens, the subset of them that is valid and the worker count. *)
InitNeverBlocks == stage # "blocked"

(* C5: when InitGitHubClients returns, the pool holds N x (R+1) handles for *)
(* the N credentials that pass validation, all of them in the ready queue,  *)
(* none in the exhausted queue, each with RateLimitedUntil before now.      *)
SeededPool ==
    PoolBuilt =>
      /\ Len(handles) = Cardinality(Valid) * (Threads + 1)
      /\ Clients = [c \in HandleIds |-> c]
      /\ \A k \in Valid : Cardinality(HandlesOf(k)) = Threads + 1
      /\ ExhaustedClients = <<>>
      /\ \A c \in HandleIds : handles[c].RateLimitedUntil < now

\* Two valid credentials and a rejected one, two workers.
SeededPoolWitness ==
    /\ PoolBuilt
    /\ Cardinality(Valid) = 2
    /\ Rejected # {}
    /\ Threads = 2
    /\ Len(Clients) = 6

(* C6: FreeClient sends the handle to the exhausted queue if and only if    *)
(* its RateLimitedUntil is strictly after the time of the call, otherwise   *)
(* to the ready queue, and to one of the two only.                          *)
ReleaseRouting ==
    [][\A w \in Workers :
         Frees(w) =>
           IF handles[held[w]].RateLimitedUntil > now
           THEN /\ ExhaustedClients' = Append(ExhaustedClients, held[w])
                /\ Clients' = Clients
           ELSE /\ Clients' = Append(Clients, held[w])
                /\ ExhaustedClients' = ExhaustedClients]_vars

\* One handle released at its reset time sits in ready, another released
\* before its reset time sits in exhausted.
ReleaseRoutingWitness ==
    /\ \E c \in Range(Clients) : handles[c].RateLimitedUntil = now
    /\ \E c \in Range(ExhaustedClients) : handles[c].RateLimitedUntil > 0
    /\ Cardinality({w \in Workers : pc[w] = "done"}) = 2

(* C7: a caller that takes handle h from the exhausted queue at time t      *)
(* sleeps for max(0, h.RateLimitedUntil - t) with h in neither queue; it    *)
(* wakes no earlier than h.RateLimitedUntil, and its FreeClient call then   *)
(* sends h to the ready queue, never back to the exhausted queue, before    *)
(* the caller polls again.                                                  *)
ExhaustedPath ==
    /\ [](\A w \in Workers :
            pc[w] = "sleeping" =>
              /\ held[w] \in HandleIds
              /\ held[w] \notin Range(Clients) \cup Range(ExhaustedClients)
              /\ wakeAt[w] >= handles[held[w]].RateLimitedUntil)
    /\ [][\A w \in Workers :
            (AtSelect(w) /\ pc'[w] = "sleeping") =>
              /\ held'[w] = Head(ExhaustedClients)
              /\ wakeAt'[w] =
                   now + Max(0, handles[held'[w]].RateLimitedUntil - now)]_vars
    /\ [][\A w \in Workers :
            (pc[w] = "sleeping" /\ pc'[w] # "sleeping") =>
              /\ now >= wakeAt[w]
              /\ now >= handles[held[w]].RateLimitedUntil
              /\ Clients' = Append(Clients, held[w])
              /\ ExhaustedClients' = ExhaustedClients
              /\ pc'[w] = "select"]_vars

\* One borrower has released a rate-limited handle; the only other caller
\* took it from the exhausted queue, slept until its reset time and sent it
\* to the ready queue.
ExhaustedPathWitness ==
    /\ now > 0
    /\ \E w \in Workers :
         /\ pc[w] = "select"
         /\ \A v \in Workers \ {w} : pc[v] \in {"idle", "done"}
         /\ Cardinality({v \in Workers : pc[v] = "done"}) = 1
    /\ \E c \in Range(Clients) : handles[c].RateLimitedUntil = now

(* C8: with local mode off, InitGitHubClients ends in the Log.Fatal state   *)
(* with no handle in the pool when no credential validates, and never ends  *)
(* there when at least one credential validates.                            *)
FatalIffNoneValid ==
    ClientsRan =>
      /\ (Valid = {}) => (stage = "fatal" /\ handles = <<>>)
      /\ (Valid # {}) => stage # "fatal"

(* C9: a credential the service rejects is skipped and is not fatal: a      *)
(* warning is logged for it, it contributes no handle, and the remaining    *)
(* credentials are still processed; with 3 credentials of which 2 are       *)
(* rejected the pool holds 1 x (R+1) handles and startup does not fail.     *)
RejectedSkipped ==
    ClientsRan =>
      /\ stage # "panic"
      /\ \A k \in Rejected : HandlesOf(k) = {}
      /\ PoolBuilt => \A k \in Rejected : Warned(k)
      /\ (Len(tokens) = 3 /\ Cardinality(Rejected) = 2) =>
           (PoolBuilt /\ Len(Clients) = Threads + 1)

(* C10 as stated: a credential whose validation call fails with an error    *)
(* other than a rejection contributes no handle, and when every credential  *)
(* fails this way the pool is empty and startup is fatal.                   *)
ErroredSkipped ==
    ClientsRan =>
      /\ \A k \in Errored : HandlesOf(k) = {}
      /\ (tokens # <<>> /\ Errored = TokenIds) => stage = "fatal"

(* C10 amended: a credential whose validation call fails with an error      *)
(* other than a rejection is not skipped: no warning is logged for it and,  *)
(* when InitGitHubClients returns, it has R+1 handles in the pool like a    *)
(* credential that validated; when every credential fails this way the pool *)
(* is not empty and the Log.Fatal state is not reached.                     *)
ErroredKept ==
    ClientsRan =>
      /\ \A k \in Errored : ~Warned(k)
      /\ PoolBuilt => \A k \in Errored : Cardinality(HandlesOf(k)) = Threads + 1
      /\ (tokens # <<>> /\ Errored = TokenIds) =>
           (stage # "fatal" /\ handles # <<>>)

\* A pool seeded from one validated credential and one whose validation
\* call failed without a rejection.
ErroredKeptWitness ==
    /\ PoolBuilt
    /\ \E k \in Errored : Cardinality(HandlesOf(k)) = Threads + 1
    /\ \E k \in TokenIds : tokens[k].res = "ok"

\* N x (R+1): the handles InitGitHubClients created.
Total == Cardinality(Valid) * (Threads + 1)

Occupancy == Len(Clients) + Len(ExhaustedClients)

Kept == {w \in Workers : pc[w] = "kept"}

Twice == {w \in Workers : pc[w] = "twice"}

\* Every loan other than the ones never released has been returned.
OthersReturned ==
    \A w \in Workers : pc[w] \in {"idle", "select", "backoff", "done", "kept", "twice"}

(* C11 as stated: after a borrower never released a handle, or released it  *)
(* twice, the occupancy |ready| + |exhausted| is below N x (R+1) once all   *)
(* other loans are returned.                                                *)
LeakBelowTotal ==
    (OthersReturned /\ Kept \cup Twice # {}) => Occupancy < Total

(* C11 amended: a handle that is never released stays out of the pool, so   *)
(* that once all other loans are returned the occupancy is one below        *)
(* N x (R+1) for each such handle; a handle released twice is in the pool   *)
(* twice, so that the occupancy is one above N x (R+1) for each such        *)
(* handle: with no handle kept, none is missing.                            *)
LeakOrDuplicate ==
    /\ [](OthersReturned =>
            Occupancy = Total - Cardinality(Kept) + Cardinality(Twice))
    /\ [][\A w \in Workers :
            pc[w] = "kept" => (pc'[w] = "kept" /\ held'[w] = held[w]
                               /\ held[w] \notin Range(Clients')
                               /\ held[w] \notin Range(ExhaustedClients'))]_vars

\* One handle released twice and every other loan returned: the pool holds
\* one element more than the handles there are.
LeakOrDuplicateWitness ==
    /\ OthersReturned
    /\ Cardinality(Twice) = 1
    /\ Kept = {}
    /\ Occupancy = Total + 1
    /\ \E c \in HandleIds : Occ(Clients, c) + Occ(ExhaustedClients, c) = 2

\* The workers inside the time.Sleep of GetClient's exhausted path.
Sleepers == {w \in Workers : pc[w] = "sleeping"}

(* C12: the sleep of GetClient's exhausted path blocks only the sleeper.     *)
(* While a worker sleeps, any other worker at the select of GetClient with   *)
(* a non-empty ready queue can take a ready handle at once, and takes it     *)
(* without the clock advancing; any worker calling FreeClient can complete   *)
(* it at once; the sleeper holds no queue slot: its handle is in neither     *)
(* queue while it sleeps.                                                    *)
SleepBlocksOnlySleeper ==
    /\ [](\A s \in Sleepers :
            /\ held[s] \notin Range(Clients) \cup Range(ExhaustedClients)
            /\ \A w \in Workers \ {s} :
                 /\ (pc[w] \in {"idle", "select"} /\ Clients # <<>>)
                      => ENABLED SelectClients(w)
                 /\ pc[w] = "using" =>
                      (Parked(w) = "none" /\ CanFree(held[w], now)))
    /\ [][\A w \in Workers :
            (Sleepers # {} /\ SelectClients(w))
              => (now' = now /\ held'[w] = Head(Clients)
                  /\ \A s \in Sleepers : pc'[s] = "sleeping")]_vars

\* One worker sleeps on an exhausted handle, its wake-up time still ahead,
\* while another, at the select, finds the ready queue non-empty.
SleepBlocksOnlySleeperWitness ==
    \E s \in Sleepers : \E w \in Workers \ {s} :
        /\ pc[w] \in {"idle", "select"}
        /\ Clients # <<>>
        /\ now < wakeAt[s]
        /\ ENABLED SelectClients(w)

(* C13: in local mode InitGitHubClients leaves everything as it found it,   *)
(* for every list of tokens: no validation outcome shows (no warning is      *)
(* logged for a rejected token, no client made for a valid one), no channel  *)
(* is made (capacity 0, nothing queued), startup never ends fatally, and     *)
(* the step after InitGitHubClients is InitCsvWriter.                        *)
LocalBypass ==
    /\ [](Local => /\ chanSize = 0
                   /\ handles = <<>>
                   /\ Clients = <<>>
                   /\ ExhaustedClients = <<>>
                   /\ Log = <<>>
                   /\ ~Ended
                   /\ stage = "csv" => ENABLED InitCsvWriter)
    /\ [][(Local /\ stage = "clients" /\ stage' # stage) => stage' = "csv"]_vars

\* Startup has finished in local mode with no token that would validate and
\* one the service would have rejected.
LocalBypassWitness ==
    /\ Local
    /\ stage = "done"
    /\ Valid = {}
    /\ Rejected # {}

(* C14: no log line contains a token in full.  For every token, of any      *)
(* length, each log line about it shows a prefix of fixed length that is     *)
(* strictly shorter than the token, and writing the line never aborts        *)
(* InitGitHubClients.                                                        *)
LogsPrefixOnly ==
    /\ stage # "panic"
    /\ \A i \in 1..Len(Log) :
         /\ Log[i].shown = PrefixLen
         /\ Log[i].shown < tokens[Log[i].token].len

\* The steps of Start, in the order of its body, and the ways
\* InitGitHubClients can end.
StageSteps ==
    {<<"logger", "threads">>, <<"threads", "signatures">>,
     <<"signatures", "clients">>, <<"clients", "csv">>, <<"csv", "done">>,
     <<"clients", "fatal">>, <<"clients", "panic">>, <<"clients", "blocked">>}

(* C15: startup runs logging, worker-count resolution, signature loading,    *)
(* pool initialization and output-sink setup in this order; a configured     *)
(* worker count of 0 has been replaced by a count of at least 1 when         *)
(* signature loading starts, and it is this count that InitGitHubClients     *)
(* uses for the capacity of the channels and for the replicas per token.     *)
StartupOrder ==
    /\ [][stage' # stage => <<stage, stage'>> \in StageSteps]_vars
    /\ [][stage \notin {"logger", "threads"} => Threads' = Threads]_vars
    /\ [](stage \notin {"logger", "threads"} => Threads >= 1)
    /\ [](ClientsRan => /\ chanSize = Threads * (Len(tokens) + 1)
                        /\ chanSize >= 1)
    /\ [](PoolBuilt => \A k \in Valid : Cardinality(HandlesOf(k)) = Threads + 1)

\* Startup is through with a worker count that only the hardware can have
\* given, and a pool seeded with it.
StartupOrderWitness ==
    /\ stage = "done"
    /\ PoolBuilt
    /\ Threads > MaxThreads
    /\ handles # <<>>
    /\ Len(handles) = Cardinality(Valid) * (Threads + 1)

\* The workers inside a borrow: in GetClient, or in possession of a handle.
Active == {w \in Workers : pc[w] \notin {"idle", "done"}}

(* C16: with at least one valid credential, and while no more workers than   *)
(* the worker count are inside a borrow, each holding at most one handle    *)
(* (held[w]), the ready and the exhausted queue are never both empty, and    *)
(* no such worker takes the default branch of GetClient's select.            *)
MarginAvoidsStarvation ==
    /\ []((Valid # {} /\ Cardinality(Active) <= Threads)
            => (Clients # <<>> \/ ExhaustedClients # <<>>))
    /\ [][\A w \in Workers :
            (Valid # {} /\ pc[w] # "backoff" /\ pc'[w] = "backoff")
              => Cardinality(Active') > Threads]_vars

\* As many workers as the worker count are inside a borrow, each with a
\* handle, and the one handle of the margin is in a queue.
MarginAvoidsStarvationWitness ==
    /\ Cardinality(Active) = Threads
    /\ \A w \in Active : held[w] # 0
    /\ Occupancy = 1
    /\ Len(handles) = Threads + 1

(* C17: once InitGitHubClients has returned, with every borrower calling    *)
(* FreeClient exactly once per handle it acquired, no call of FreeClient     *)
(* finds its channel full, the borrower's as little as the one GetClient     *)
(* makes after its sleep: neither channel ever holds more than               *)
(* Threads x (len(tokens) + 1) elements, and the channel a held handle       *)
(* would be sent to always has a free slot.                                  *)
FreeNeverBlocks ==
    /\ chanSize = Threads * (Len(tokens) + 1)
    /\ Len(Clients) <= chanSize
    /\ Len(ExhaustedClients) <= chanSize
    /\ \A w \in Workers :
         /\ Parked(w) = "none"
         /\ pc[w] \in {"using", "sleeping"} => CanFree(held[w], now)

\* All handles of the pool are in the exhausted channel at once, which is
\* full.
FreeNeverBlocksWitness ==
    /\ handles # <<>>
    /\ Len(ExhaustedClients) = Len(handles)
    /\ Len(ExhaustedClients) = chanSize
    /\ \E w \in Workers : pc[w] = "done"

\* The step moves a handle into or out of a channel or a worker's hands:
\* it is a step of GetClient or of FreeClient.
PoolStep ==
    \/ Clients' # Clients
    \/ ExhaustedClients' # ExhaustedClients
    \/ pc' # pc
    \/ held' # held

(* C18: GetClient and FreeClient, the exhausted path of GetClient included,  *)
(* leave every handle as it is: no handle is made or dropped after           *)
(* InitGitHubClients, no handle's token ever changes, and a handle's         *)
(* RateLimitedUntil changes only in a step that is no pool operation, by a   *)
(* borrower that has the handle on loan.                                     *)
HandlesFrame ==
    [][/\ Len(handles') = Len(handles)
       /\ Len(handles) = Total
       /\ PoolStep => handles' = handles
       /\ \A c \in HandleIds :
            /\ handles'[c].Token = handles[c].Token
            /\ handles'[c].RateLimitedUntil # handles[c].RateLimitedUntil
                 => \E w \in Workers :
                      /\ pc[w] = "using"
                      /\ held[w] = c
                      /\ c \notin Range(Clients) \cup Range(ExhaustedClients)]_vars

\* A handle a borrower has rate-limited is back in a channel with its new
\* RateLimitedUntil, and a worker has been through a wait of GetClient.
HandlesFrameWitness ==
    \E c \in HandleIds : \E w \in Workers :
        /\ handles[c].RateLimitedUntil > 0
        /\ c \in Range(Clients) \cup Range(ExhaustedClients)
        /\ pc[w] = "select"
        /\ Len(handles) = Total

(* C19: every handle in the ready queue has a RateLimitedUntil that is not  *)
(* after the current time, so that the handle GetClient returns is usable    *)
(* at the moment it is returned: a handle whose RateLimitedUntil is in the   *)
(* future is never handed to a worker.                                       *)
ReadyIsUsable ==
    /\ [](\A c \in Range(Clients) : handles[c].RateLimitedUntil <= now)
    /\ [][\A w \in Workers :
            (pc[w] # "using" /\ pc'[w] = "using")
              => /\ held'[w] \in HandleIds
                 /\ handles'[held'[w]].RateLimitedUntil <= now']_vars

\* A handle that a borrower rate-limited is at the head of the ready queue,
\* its limit passed, and a worker at the select is about to receive it.
ReadyIsUsableWitness ==
    /\ Clients # <<>>
    /\ handles[Head(Clients)].RateLimitedUntil > 0
    /\ handles[Head(Clients)].RateLimitedUntil <= now
    /\ \E w \in Workers : pc[w] \in {"idle", "select"} /\ ENABLED SelectClients(w)

====
